---- MODULE Spec2Model ----
(***************************************************************************)
(* node-cipher: the NodeCipher class of the library (option merging,       *)
(* validation, PBKDF2 key derivation, the streaming cipher pipeline of     *)
(* encrypt()/decrypt() and the buffered one of encryptSync()/decryptSync())*)
(* as a state machine over a small file system.                            *)
(***************************************************************************)
EXTENDS Integers, Sequences, FiniteSets

\* Longest initial content of the input file, in bytes.
MaxLen == 2

\* The byte alphabet of file contents.
Bytes == {0, 1, 2}

NumBytes == Cardinality(Bytes)

(***************************************************************************)
(* JavaScript values: a tag (the typeof), a string part and a number part. *)
(***************************************************************************)
Undef == [t |-> "undefined", s |-> "", n |-> 0]

Str(x) == [t |-> "string", s |-> x, n |-> 0]

Num(i) == [t |-> "number", s |-> "", n |-> i]

Buf(x) == [t |-> "buffer", s |-> x, n |-> 0]

IsString(v) == v.t = "string"

IsBuffer(v) == v.t = "buffer"

IsInteger(v) == v.t = "number"

TypeOf(v) == IF v.t = "buffer" THEN "object" ELSE v.t

\* Template-literal conversion `${val}` of the values the model draws.
Stringify(v) ==
  IF v.t = "string" THEN v.s
  ELSE IF v.t = "undefined" THEN "undefined"
  ELSE IF v.t = "number" /\ v.n = 0 THEN "0"
  ELSE IF v.t = "number" /\ v.n = 5 THEN "5"
  ELSE "[value]"

(***************************************************************************)
(* Constants of the library.                                               *)
(***************************************************************************)
DEFAULT_ALGORITHM == "cast5-cbc"

DEFAULT_SALT == "nodecipher"

DEFAULT_ITERATIONS == 1000

DEFAULT_KEYLEN == 512

DEFAULT_DIGEST == "sha1"

\* crypto.getCiphers() and crypto.getHashes(): the names the model knows.
ALL_CIPHERS == {"cast5-cbc", "aes-128-cbc", "aes-256-cbc", "aes-128-ctr"}

\* The names among them of transforms that do not pad: counter mode.
StreamCiphers == {"aes-128-ctr"}

ALL_HASHES == {"sha1", "sha256"}

\* listAlgorithms() and listHashes() return the arrays the validators test.
listAlgorithms == ALL_CIPHERS

listHashes == ALL_HASHES

Errors ==
  [BAD_ALGORITHM |-> "Bad Algorithm", BAD_DIGEST |-> "Bad Digest",
   BAD_FILE |-> "Bad File", BAD_DECRYPT |-> "Bad Decrypt"]

Actions == {"encrypt", "decrypt"}

FieldSet ==
  {"input", "output", "password", "algorithm", "salt", "digest",
   "iterations", "keylen"}

Defaults ==
  [input |-> Undef, output |-> Undef, password |-> Undef,
   algorithm |-> Str(DEFAULT_ALGORITHM), salt |-> Str(DEFAULT_SALT),
   digest |-> Str(DEFAULT_DIGEST), iterations |-> Num(DEFAULT_ITERATIONS),
   keylen |-> Num(DEFAULT_KEYLEN)]

(***************************************************************************)
(* The file system the operations run on.  A file is its content, a        *)
(* sequence of bytes; NoFile stands for a path with no file.               *)
(***************************************************************************)
NoFile == <<-1>>

Paths ==
  {"in.txt", "out.txt", "old.txt", "missing.txt", "locked.txt",
   "nodir/out.txt", "dec.txt"}

\* Files that exist but whose open fails with EACCES, for reading and writing.
NoAccess == {"locked.txt"}

ParentOf(p) == IF p = "nodir/out.txt" THEN "nodir" ELSE "."

RECURSIVE SeqsUpTo(_)
SeqsUpTo(n) ==
  IF n = 0 THEN {<<>>}
  ELSE LET S == SeqsUpTo(n - 1)
       IN S \cup {Append(s, b) : s \in {x \in S : Len(x) = n - 1}, b \in Bytes}

Contents == SeqsUpTo(MaxLen)

(***************************************************************************)
(* Error objects and what reaches the caller.  origin records which stage  *)
(* raised the error; it is book-keeping, not a field of the JS object.     *)
(***************************************************************************)
Msg(kind, key, got) == [kind |-> kind, key |-> key, got |-> got]

NoName == "undefined"

MkError(name, msg, code, path, origin) ==
  [ok |-> FALSE, name |-> name, msg |-> msg, code |-> code, path |-> path,
   origin |-> origin]

Ok == [ok |-> TRUE, name |-> "", msg |-> Msg("", "", ""), code |-> "",
       path |-> "", origin |-> ""]

PlatformError(code, path, origin) ==
  MkError("Error", Msg("platform", code, path), code, path, origin)

(***************************************************************************)
(* Option merging and validation.                                          *)
(***************************************************************************)

\* _.defaults(options, this._config): every key of the configuration whose
\* value in options is undefined receives the configured value.
\* ParseOptions with a fault: the configured value wins over the caller's.
\* C15 must detect it.
ParseOptions_ConfigWins(options, cfg) ==
  [f \in FieldSet |-> IF cfg[f] # Undef THEN cfg[f] ELSE options[f]]

ParseOptions(options, cfg) ==
  [f \in FieldSet |-> IF options[f] = Undef THEN cfg[f] ELSE options[f]]

\* ConfigAfterParse with a fault: the arguments of _.defaults are swapped,
\* the configuration receives the caller's values.  C19 must detect it.
ConfigAfterParse_Written(options, cfg) ==
  [f \in FieldSet |-> IF cfg[f] = Undef THEN options[f] ELSE cfg[f]]

\* ConfigAfterParse with a fault: the values the caller supplied are assigned
\* to the configuration, as _.assign(this._config, options) would.  C30 must
\* detect it.
ConfigAfterParse_Assigned(options, cfg) ==
  [f \in FieldSet |-> IF options[f] # Undef THEN options[f] ELSE cfg[f]]

\* this._config after _parseOptions: _.defaults assigns to its first
\* argument only, the configuration is a source and stays as it is.
ConfigAfterParse(options, cfg) == cfg

\* One entry of the errors array: option and name are "undefined" when the
\* object literal in the code does not set them.
VErr(option, name, msg) == [option |-> option, name |-> name, msg |-> msg]

RequiredEntry(key, val) ==
  IF val = Undef
  THEN <<VErr(key, NoName, Msg("required", key, ""))>>
  ELSE <<>>

ValidateRequiredString(key, val) ==
  RequiredEntry(key, val)
  \o (IF ~IsString(val)
      THEN <<VErr(NoName, key, Msg("not-string", key, TypeOf(val)))>>
      ELSE <<>>)

ValidateRequiredStringOrBuffer(key, val) ==
  RequiredEntry(key, val)
  \o (IF ~IsString(val) /\ ~IsBuffer(val)
      THEN <<VErr(key, NoName, Msg("not-string-or-buffer", key, TypeOf(val)))>>
      ELSE <<>>)

\* ValidateRequiredInteger with a fault: the type of the value is not
\* looked at.  C12 must detect it.
ValidateRequiredInteger_Untyped(key, val) == RequiredEntry(key, val)

ValidateRequiredInteger(key, val) ==
  RequiredEntry(key, val)
  \o (IF ~IsInteger(val)
      THEN <<VErr(key, NoName, Msg("not-integer", key, TypeOf(val)))>>
      ELSE <<>>)

ValidateRequiredHash(key, val) ==
  RequiredEntry(key, val)
  \o (IF ~IsString(val)
      THEN <<VErr(key, NoName, Msg("not-string", key, TypeOf(val)))>>
      ELSE <<>>)
  \o (IF ~(IsString(val) /\ val.s \in ALL_HASHES)
      THEN <<VErr(key, Errors.BAD_DIGEST,
                  Msg("not-a-digest", Stringify(val), ""))>>
      ELSE <<>>)

\* ValidateRequiredCipher with a fault: the membership test uses a list of
\* its own, without the counter-mode ciphers, instead of ALL_CIPHERS.  C21
\* must detect it.
ValidateRequiredCipher_OwnList(key, val) ==
  RequiredEntry(key, val)
  \o (IF ~IsString(val)
      THEN <<VErr(key, NoName, Msg("not-string", key, TypeOf(val)))>>
      ELSE <<>>)
  \o (IF ~(IsString(val) /\ val.s \in {"cast5-cbc", "aes-128-cbc", "aes-256-cbc"})
      THEN <<VErr(key, Errors.BAD_ALGORITHM,
                  Msg("not-a-cipher", Stringify(val), ""))>>
      ELSE <<>>)

ValidateRequiredCipher(key, val) ==
  RequiredEntry(key, val)
  \o (IF ~IsString(val)
      THEN <<VErr(key, NoName, Msg("not-string", key, TypeOf(val)))>>
      ELSE <<>>)
  \o (IF ~(IsString(val) /\ val.s \in ALL_CIPHERS)
      THEN <<VErr(key, Errors.BAD_ALGORITHM,
                  Msg("not-a-cipher", Stringify(val), ""))>>
      ELSE <<>>)

\* ValidateOptions with a fault: only the first entry is returned.  C13
\* must detect it.
ValidateOptions_FirstOnly(options) ==
  LET all == ValidateRequiredString("input", options.input)
             \o ValidateRequiredString("output", options.output)
             \o ValidateRequiredString("password", options.password)
             \o ValidateRequiredStringOrBuffer("salt", options.salt)
             \o ValidateRequiredInteger("iterations", options.iterations)
             \o ValidateRequiredInteger("keylen", options.keylen)
             \o ValidateRequiredHash("digest", options.digest)
             \o ValidateRequiredCipher("algorithm", options.algorithm)
  IN IF Len(all) > 0 THEN <<all[1]>> ELSE <<>>

ValidateOptions(options) ==
  ValidateRequiredString("input", options.input)
  \o ValidateRequiredString("output", options.output)
  \o ValidateRequiredString("password", options.password)
  \o ValidateRequiredStringOrBuffer("salt", options.salt)
  \o ValidateRequiredInteger("iterations", options.iterations)
  \o ValidateRequiredInteger("keylen", options.keylen)
  \o ValidateRequiredHash("digest", options.digest)
  \o ValidateRequiredCipher("algorithm", options.algorithm)

\* HandleErrors with a fault: the promise is rejected with the last entry of
\* the array instead of the first.  C26 must detect it.
HandleErrors_Last(errors) ==
  IF Len(errors) > 0
  THEN MkError(IF errors[Len(errors)].name # NoName
               THEN errors[Len(errors)].name ELSE "Error",
               errors[Len(errors)].msg, "", "", "validation")
  ELSE Ok

\* _handleErrors: the settled value of the promise.  Ok is a resolution, an
\* error a rejection made of the first entry, whose name is copied if set.
HandleErrors(errors) ==
  IF Len(errors) > 0
  THEN MkError(IF errors[1].name # NoName THEN errors[1].name ELSE "Error",
               errors[1].msg, "", "", "validation")
  ELSE Ok

\* _handleErrorsSync: the error to throw, or Ok for undefined.  Only the
\* message of the first entry is used.
HandleErrorsSync(errors) ==
  IF Len(errors) > 0
  THEN MkError("Error", errors[1].msg, "", "", "validation")
  ELSE Ok

(***************************************************************************)
(* The platform's crypto provider, as far as the library uses it.          *)
(***************************************************************************)

\* The bytes of the strings that go into key derivation, by a code each.
KnownStrings ==
  <<"alakazam", "not-alakazam", "nodecipher", "abracadabra", "sha1",
    "sha256", "cast5-cbc", "aes-128-cbc", "aes-256-cbc", "aes-128-ctr">>

StrCode(s) ==
  IF \E i \in 1..Len(KnownStrings) : KnownStrings[i] = s
  THEN CHOOSE i \in 1..Len(KnownStrings) : KnownStrings[i] = s
  ELSE 0

\* crypto.pbkdf2 / crypto.pbkdf2Sync raise "Bad iterations" / "Bad key
\* length" synchronously instead of deriving.
Pbkdf2Throws(options) ==
  options.iterations.n <= 0 \/ options.keylen.n < 0

\* The derived key: keylen bytes, a function of the five inputs.
PBKDF2(password, salt, iterations, keylen, digest) ==
  LET base == 7 * StrCode(password) + 5 * StrCode(salt) + 3 * iterations
                + StrCode(digest)
  IN [i \in 1..keylen |-> (base + i) % 256]

\* DeriveKeyFromOptions with a fault: the salt of the options is not passed
\* on, the default salt is used.  C3 must detect it.
DeriveKeyFromOptions_DefaultSalt(options) ==
  PBKDF2(options.password.s, DEFAULT_SALT, options.iterations.n,
         options.keylen.n, options.digest.s)

DeriveKeyFromOptions(options) ==
  PBKDF2(options.password.s, options.salt.s, options.iterations.n,
         options.keylen.n, options.digest.s)

DeriveKeyFromOptionsSync(options) ==
  PBKDF2(options.password.s, options.salt.s, options.iterations.n,
         options.keylen.n, options.digest.s)

\* key.toString('hex'): two hexadecimal digits per byte.
ToHex(buf) ==
  LET n == Len(buf)
  IN [j \in 1..(2 * n) |->
        IF j % 2 = 1 THEN buf[(j + 1) \div 2] \div 16 ELSE buf[j \div 2] % 16]

\* crypto.createCipher / createDecipher expand (algorithm, password) into
\* the key of the transform.
BytesToKey(algorithm, hex) ==
  LET n == Len(hex)
  IN (StrCode(algorithm) + n
        + (IF n > 0 THEN 16 * hex[1] + hex[2] + hex[n] ELSE 0))
     % NumBytes

\* _generateCipherFromOptions: the transform, which is its key and whether
\* the algorithm is one that works without padding.
GenerateCipherFromOptions(options, key) ==
  [k |-> BytesToKey(options.algorithm.s, ToHex(key)),
   stream |-> options.algorithm.s \in StreamCiphers]

\* The block transform and its inverse (blocks of one byte).
EncByte(k, b) == (b + k) % NumBytes

DecByte(k, c) == (c + NumBytes - k) % NumBytes

\* The plaintext value of the padding block that final() appends.
PadByte == 0

\* cipher.update(chunk) of one byte: the transform keeps in held what it
\* cannot emit yet (a decipher keeps the last block for final()).
CipherUpdate(act, key, held, b) ==
  IF act = "encrypt"
  THEN [out |-> <<EncByte(key.k, b)>>, held |-> <<>>]
  ELSE IF key.stream
  THEN [out |-> <<DecByte(key.k, b)>>, held |-> <<>>]
  ELSE [out |-> IF held = <<>> THEN <<>> ELSE <<DecByte(key.k, held[1])>>,
        held |-> <<b>>]

\* cipher.final(): the padding block, or the check of the padding block;
\* a transform that does not pad has nothing to add and nothing to check.
CipherFinal(act, key, held) ==
  IF key.stream
  THEN [ok |-> TRUE, out |-> <<>>]
  ELSE IF act = "encrypt"
  THEN [ok |-> TRUE, out |-> <<EncByte(key.k, PadByte)>>]
  ELSE [ok |-> held # <<>> /\ DecByte(key.k, held[1]) = PadByte, out |-> <<>>]

\* Buffer.concat([cipher.update(inputBuffer), cipher.final()]) on the whole
\* input at once.
RECURSIVE UpdateAll(_, _, _, _)
UpdateAll(act, key, held, data) ==
  IF data = <<>> THEN [out |-> <<>>, held |-> held]
  ELSE LET u == CipherUpdate(act, key, held, Head(data))
           r == UpdateAll(act, key, u.held, Tail(data))
       IN [out |-> u.out \o r.out, held |-> r.held]

CipherAll(act, key, data) ==
  LET u == UpdateAll(act, key, <<>>, data)
      f == CipherFinal(act, key, u.held)
  IN [ok |-> f.ok, out |-> u.out \o f.out]

\* StreamErrorName with a fault: an error that is not ENOENT keeps the name
\* it came with.  C8 must detect it.
StreamErrorName_KeepsName(err) ==
  IF err.code = "ENOENT" THEN Errors.BAD_FILE ELSE err.name

\* The name the error handlers of the two pipelines give an error.
StreamErrorName(err) ==
  IF err.code = "ENOENT" THEN Errors.BAD_FILE ELSE Errors.BAD_DECRYPT

\* SyncErrorName with a fault: the catch block names every error BAD_FILE.
\* C11 must detect it.
SyncErrorName_BadFile(err) == Errors.BAD_FILE

SyncErrorName(err) ==
  IF err.code = "ENOENT" THEN Errors.BAD_FILE ELSE Errors.BAD_DECRYPT

(***************************************************************************)
(* The state: the file system, the instance's configuration, the call in   *)
(* progress and, for encrypt()/decrypt(), its promise and its streams.     *)
(***************************************************************************)
VARIABLES
  fs,          \* path -> content, or NoFile
  dirs,        \* the directories that exist besides the working directory
  config,      \* this._config
  pc,          \* idle | promise | deriving | streaming | done | dead
  mode,        \* async | sync
  action,      \* encrypt | decrypt
  orig,        \* the options as the caller passed them
  opts,        \* the options object after _parseOptions
  errors,      \* the array _validateOptions returned
  settled,     \* the value the promise of _handleErrors settled with
  delivered,   \* what reached the caller: callback calls, or return/throw
  rs,          \* read stream: none | opening | open | ended | closed | error
  rsPos,       \* bytes the read stream has read
  piped,       \* readStream is piped into cipher
  ciph,        \* the transform: its key, held block and state
  cipherPiped, \* cipher is piped into writeStream
  ws,          \* write stream: none | opening | open | finished | closed | error
  wsBuf,       \* bytes written to the write stream, not yet in the file
  wsEnded,     \* end() was called on the write stream
  fs0,         \* the file system when the call began
  opNo,        \* calls made so far
  prev,        \* the first call, once a second one has begun
  other,       \* the call in flight whose handlers are not the one running
  cli          \* the command-line interface: its command and its prompt

vars ==
  <<fs, dirs, config, pc, mode, action, orig, opts, errors, settled,
    delivered, rs, rsPos, piped, ciph, cipherPiped, ws, wsBuf, wsEnded, fs0,
    opNo, prev, other, cli>>

streamVars == <<rs, rsPos, piped, ciph, cipherPiped, ws, wsBuf, wsEnded>>

callVars ==
  <<mode, action, orig, opts, errors, settled, fs0, opNo, prev, other, cli>>

NoKey == [k |-> 0, stream |-> FALSE]

NoCipher == [key |-> NoKey, held |-> <<>>, st |-> "none"]

NoOptions == [f \in FieldSet |-> Undef]

NoPrev ==
  [options |-> NoOptions, plain |-> NoFile, mode |-> "none", changed |-> "none"]

\* The command-line interface before a command is run.
CliOff ==
  [pc |-> "off", command |-> "none", input |-> "", output |-> "",
   options |-> NoOptions, prompts |-> 0, accepted |-> 0, rejected |-> 0,
   answer |-> Undef]

\* A call that was not made yet, with the file system f in front of it.
IdleOp(f) ==
  [pc |-> "idle", mode |-> "none", action |-> "none", orig |-> NoOptions,
   opts |-> NoOptions, errors |-> <<>>, settled |-> Ok, delivered |-> <<>>,
   rs |-> "none", rsPos |-> 0, piped |-> FALSE, ciph |-> NoCipher,
   cipherPiped |-> FALSE, ws |-> "none", wsBuf |-> <<>>, wsEnded |-> FALSE,
   fs0 |-> f]

\* The call whose handlers are running, as a record.
Active ==
  [pc |-> pc, mode |-> mode, action |-> action, orig |-> orig, opts |-> opts,
   errors |-> errors, settled |-> settled, delivered |-> delivered, rs |-> rs,
   rsPos |-> rsPos, piped |-> piped, ciph |-> ciph,
   cipherPiped |-> cipherPiped, ws |-> ws, wsBuf |-> wsBuf,
   wsEnded |-> wsEnded, fs0 |-> fs0]

\* The requests the callers of the model make.
InputVals == {Str("in.txt"), Str("missing.txt"), Str("locked.txt")}

OutputVals ==
  {Str("out.txt"), Str("old.txt"), Str("locked.txt"), Str("nodir/out.txt"),
   Str("in.txt")}

PasswordVals == {Undef, Str("alakazam")}

SaltVals == {Undef, Str("abracadabra")}

IterationsVals == {Undef, Num(0)}

DigestVals == {Undef, Str("md0")}

AlgorithmVals ==
  {Undef, Str("aes-128-cbc"), Str("aes-128-ctr"), Str("foobar")}

AllRequests ==
  {[input |-> i, output |-> o, password |-> p, algorithm |-> a, salt |-> s,
    digest |-> d, iterations |-> n, keylen |-> Undef] :
     i \in InputVals, o \in OutputVals, p \in PasswordVals,
     a \in AlgorithmVals, s \in SaltVals, d \in DigestVals,
     n \in IterationsVals}

\* A request that fails validation touches no file: those are made for one
\* pair of paths only.
Requests ==
  {o \in AllRequests :
     \/ Len(ValidateOptions(ParseOptions(o, Defaults))) = 0
     \/ o.input = Str("in.txt") /\ o.output = Str("old.txt")}

InitFs(content) ==
  [p \in Paths |->
     IF p = "in.txt" THEN content
     ELSE IF p = "old.txt" THEN <<1>>
     ELSE IF p = "locked.txt" THEN <<0>>
     ELSE NoFile]

Init ==
  /\ fs \in {InitFs(c) : c \in Contents}
  /\ dirs = {}
  /\ config = Defaults
  /\ pc = "idle"
  /\ mode = "none"
  /\ action = "none"
  /\ orig = NoOptions
  /\ opts = NoOptions
  /\ errors = <<>>
  /\ settled = Ok
  /\ delivered = <<>>
  /\ rs = "none"
  /\ rsPos = 0
  /\ piped = FALSE
  /\ ciph = NoCipher
  /\ cipherPiped = FALSE
  /\ ws = "none"
  /\ wsBuf = <<>>
  /\ wsEnded = FALSE
  /\ fs0 = fs
  /\ opNo = 0
  /\ prev = NoPrev
  /\ other = IdleOp(fs)
  /\ cli = CliOff

(***************************************************************************)
(* Opening files.                                                          *)
(***************************************************************************)

\* fs.createReadStream's open and fs.readFileSync.
ReadOpenResult(f, path) ==
  IF f[path] = NoFile THEN "ENOENT"
  ELSE IF path \in NoAccess THEN "EACCES"
  ELSE "ok"

\* The open for writing (flag 'w') of fs.writeFileSync and of the write
\* stream, given the directories d that exist.
WriteOpenResult(path, d) ==
  IF ParentOf(path) \notin (d \cup {"."}) THEN "ENOENT"
  ELSE IF path \in NoAccess THEN "EACCES"
  ELSE "ok"

CipherError == MkError("Error", Msg("cipher", "bad decrypt", ""), "", "", "cipher")

KdfError == MkError("TypeError", Msg("platform", "Bad iterations", ""), "", "", "kdf")

(***************************************************************************)
(* encryptSync() / decryptSync().                                          *)
(***************************************************************************)

\* CipherSyncTry with a fault: the output of update() is written to the file
\* before final() is called.  C16 must detect it.
CipherSyncTry_WriteBeforeFinal(act, options, f, d) ==
  LET inp == options.input.s
      out == options.output.s
      k   == GenerateCipherFromOptions(options, DeriveKeyFromOptionsSync(options))
      rd  == ReadOpenResult(f, inp)
      u   == UpdateAll(act, k, <<>>, f[inp])
      c   == CipherAll(act, k, f[inp])
      wr  == WriteOpenResult(out, d)
  IN IF Pbkdf2Throws(options) THEN [res |-> KdfError, fs |-> f]
     ELSE IF rd # "ok" THEN [res |-> PlatformError(rd, inp, "read"), fs |-> f]
     ELSE IF wr # "ok" THEN [res |-> PlatformError(wr, out, "write"), fs |-> f]
     ELSE IF ~c.ok THEN [res |-> CipherError, fs |-> [f EXCEPT ![out] = u.out]]
     ELSE [res |-> Ok, fs |-> [f EXCEPT ![out] = c.out]]

\* try-block of _cipherSync: the error it raises (or Ok) and the file
\* system it leaves.
CipherSyncTry(act, options, f, d) ==
  LET inp == options.input.s
      out == options.output.s
      k   == GenerateCipherFromOptions(options, DeriveKeyFromOptionsSync(options))
      rd  == ReadOpenResult(f, inp)
      c   == CipherAll(act, k, f[inp])
      wr  == WriteOpenResult(out, d)
  IN IF Pbkdf2Throws(options) THEN [res |-> KdfError, fs |-> f]
     ELSE IF rd # "ok" THEN [res |-> PlatformError(rd, inp, "read"), fs |-> f]
     ELSE IF ~c.ok THEN [res |-> CipherError, fs |-> f]
     ELSE IF wr # "ok" THEN [res |-> PlatformError(wr, out, "write"), fs |-> f]
     ELSE [res |-> Ok, fs |-> [f EXCEPT ![out] = c.out]]

\* _cipherSync: the catch block names the error and throws it again.
CipherSync(act, options, f, d) ==
  LET r == CipherSyncTry(act, options, f, d)
  IN IF r.res.ok THEN r
     ELSE [res |-> [r.res EXCEPT !.name = SyncErrorName(r.res)], fs |-> r.fs]

\* _parseCipherRequestSync: what the call returns or throws, and the file
\* system after it.
ParseCipherRequestSync(act, options, f, d) ==
  LET err == HandleErrorsSync(ValidateOptions(options))
  IN IF err.ok THEN CipherSync(act, options, f, d)
     ELSE [res |-> err, fs |-> f]

ResetStreams ==
  /\ rs' = "none"
  /\ rsPos' = 0
  /\ piped' = FALSE
  /\ ciph' = NoCipher
  /\ cipherPiped' = FALSE
  /\ ws' = "none"
  /\ wsBuf' = <<>>
  /\ wsEnded' = FALSE

SyncCall(act, o) ==
  LET options == ParseOptions(o, config)
      r == ParseCipherRequestSync(act, options, fs, dirs)
  IN /\ mode' = "sync"
     /\ action' = act
     /\ orig' = o
     /\ opts' = options
     /\ errors' = ValidateOptions(options)
     /\ settled' = Ok
     /\ delivered' = <<r.res>>
     /\ fs' = r.fs
     /\ fs0' = fs
     /\ pc' = "done"
     /\ ResetStreams
     /\ config' = ConfigAfterParse(o, config)
     /\ UNCHANGED <<dirs, other>>

(***************************************************************************)
(* encrypt() / decrypt(): the call itself runs _parseOptions,              *)
(* _validateOptions and _handleErrors, and returns with the promise        *)
(* settled and its reactions pending.                                      *)
(***************************************************************************)
ParseCipherRequest(act, o) ==
  LET options == ParseOptions(o, config)
  IN /\ mode' = "async"
     /\ action' = act
     /\ orig' = o
     /\ opts' = options
     /\ errors' = ValidateOptions(options)
     /\ settled' = HandleErrors(errors')
     /\ delivered' = <<>>
     /\ fs0' = fs
     /\ pc' = "promise"
     /\ ResetStreams
     /\ config' = ConfigAfterParse(o, config)
     /\ UNCHANGED <<fs, dirs, other>>

FirstCall ==
  /\ pc = "idle"
  /\ opNo' = 1
  /\ prev' = prev
  /\ cli' = cli

encrypt == FirstCall /\ \E o \in Requests : ParseCipherRequest("encrypt", o)

decrypt == FirstCall /\ \E o \in Requests : ParseCipherRequest("decrypt", o)

encryptSync == FirstCall /\ \E o \in Requests : SyncCall("encrypt", o)

decryptSync == FirstCall /\ \E o \in Requests : SyncCall("decrypt", o)

(***************************************************************************)
(* The reactions of the promise in _parseCipherRequest.                    *)
(***************************************************************************)

\* The rejection handler: done(err).
PromiseReject ==
  /\ pc = "promise"
  /\ ~settled.ok
  /\ delivered' = Append(delivered, settled)
  /\ pc' = "done"
  /\ UNCHANGED <<fs, dirs, config, streamVars, callVars>>

\* PromiseResolve with a fault: _cipher is started whatever the promise
\* settled with.  C5 must detect it.
PromiseResolve_Unchecked ==
  /\ pc = "promise"
  /\ pc' = IF Pbkdf2Throws(opts) THEN "dead" ELSE "deriving"
  /\ UNCHANGED <<fs, dirs, config, delivered, streamVars, callVars>>

\* The fulfilment handler: _cipher, which starts crypto.pbkdf2.  When
\* pbkdf2 throws, the exception leaves the handler: nothing catches it and
\* done is not called.
PromiseResolve ==
  /\ pc = "promise"
  /\ settled.ok
  /\ pc' = IF Pbkdf2Throws(opts) THEN "dead" ELSE "deriving"
  /\ UNCHANGED <<fs, dirs, config, delivered, streamVars, callVars>>

\* The callback of crypto.pbkdf2 called with an error.
DeriveKeyFail ==
  /\ pc = "deriving"
  /\ delivered' =
       Append(delivered,
              MkError("Error", Msg("platform", "pbkdf2", ""), "", "", "kdf"))
  /\ pc' = "done"
  /\ UNCHANGED <<fs, dirs, config, streamVars, callVars>>

\* The callback of crypto.pbkdf2 called with the key: the streams and the
\* cipher are created and piped; both files are being opened.
DeriveKeyDone ==
  /\ pc = "deriving"
  /\ pc' = "streaming"
  /\ rs' = "opening"
  /\ rsPos' = 0
  /\ ws' = "opening"
  /\ wsBuf' = <<>>
  /\ wsEnded' = FALSE
  /\ ciph' = [key |-> GenerateCipherFromOptions(opts, DeriveKeyFromOptions(opts)),
              held |-> <<>>, st |-> "open"]
  /\ piped' = TRUE
  /\ cipherPiped' = TRUE
  /\ UNCHANGED <<fs, dirs, config, delivered, callVars>>

(***************************************************************************)
(* The events of the streams.                                              *)
(***************************************************************************)

\* The closure of _handleStreamError: the error as done receives it.  The
\* unpipe of the read stream is the piped' = FALSE of the actions using it.
HandleStreamError(err) == [err EXCEPT !.name = StreamErrorName(err)]

\* ReadOpen with a fault: the error handler calls done without unpiping the
\* read stream.  C24 must detect it.
ReadOpen_StaysPiped ==
  /\ pc = "streaming"
  /\ rs = "opening"
  /\ LET r == ReadOpenResult(fs, opts.input.s)
     IN IF r = "ok"
        THEN /\ rs' = "open"
             /\ UNCHANGED <<piped, delivered>>
        ELSE /\ rs' = "error"
             /\ piped' = piped
             /\ delivered' =
                  Append(delivered,
                         HandleStreamError(PlatformError(r, opts.input.s, "read")))
  /\ UNCHANGED <<fs, dirs, config, pc, rsPos, ciph, cipherPiped, ws, wsBuf,
                 wsEnded, callVars>>

\* The read stream's open completes: 'open', or 'error'.
ReadOpen ==
  /\ pc = "streaming"
  /\ rs = "opening"
  /\ LET r == ReadOpenResult(fs, opts.input.s)
     IN IF r = "ok"
        THEN /\ rs' = "open"
             /\ UNCHANGED <<piped, delivered>>
        ELSE /\ rs' = "error"
             /\ piped' = FALSE
             /\ delivered' =
                  Append(delivered,
                         HandleStreamError(PlatformError(r, opts.input.s, "read")))
  /\ UNCHANGED <<fs, dirs, config, pc, rsPos, ciph, cipherPiped, ws, wsBuf,
                 wsEnded, callVars>>

\* ReadData with a fault: the transform forgets between chunks what it
\* held back.  C17 must detect it.
ReadData_ForgetsHeld ==
  /\ pc = "streaming"
  /\ rs = "open"
  /\ piped
  /\ rsPos < Len(fs[opts.input.s])
  /\ LET u == CipherUpdate(action, ciph.key, <<>>, fs[opts.input.s][rsPos + 1])
     IN /\ ciph' = [ciph EXCEPT !.held = u.held]
        /\ wsBuf' = IF cipherPiped THEN wsBuf \o u.out ELSE wsBuf
  /\ rsPos' = rsPos + 1
  /\ UNCHANGED <<fs, dirs, config, pc, delivered, rs, piped, cipherPiped, ws,
                 wsEnded, callVars>>

\* A chunk (one byte) is read and written to the cipher, whose output is
\* written to the write stream.
ReadData ==
  /\ pc = "streaming"
  /\ rs = "open"
  /\ piped
  /\ rsPos < Len(fs[opts.input.s])
  /\ LET u == CipherUpdate(action, ciph.key, ciph.held, fs[opts.input.s][rsPos + 1])
     IN /\ ciph' = [ciph EXCEPT !.held = u.held]
        /\ wsBuf' = IF cipherPiped THEN wsBuf \o u.out ELSE wsBuf
  /\ rsPos' = rsPos + 1
  /\ UNCHANGED <<fs, dirs, config, pc, delivered, rs, piped, cipherPiped, ws,
                 wsEnded, callVars>>

\* ReadEnd with a fault: done(null, options) is called on the end of the
\* input instead of on 'finish' of the output.  C4 must detect it.
ReadEnd_DoneOnInputEnd ==
  /\ pc = "streaming"
  /\ rs = "open"
  /\ piped
  /\ rsPos >= Len(fs[opts.input.s])
  /\ rs' = "ended"
  /\ LET f == CipherFinal(action, ciph.key, ciph.held)
     IN IF f.ok
        THEN /\ ciph' = [ciph EXCEPT !.held = <<>>, !.st = "ended"]
             /\ wsBuf' = IF cipherPiped THEN wsBuf \o f.out ELSE wsBuf
             /\ wsEnded' = cipherPiped
             /\ delivered' = Append(delivered, Ok)
             /\ UNCHANGED piped
        ELSE /\ ciph' = [ciph EXCEPT !.st = "error"]
             /\ piped' = FALSE
             /\ delivered' = Append(delivered, HandleStreamError(CipherError))
             /\ UNCHANGED <<wsBuf, wsEnded>>
  /\ UNCHANGED <<fs, dirs, config, pc, rsPos, cipherPiped, ws, callVars>>

\* The read stream reaches the end of the file: the pipe ends the cipher,
\* whose final block goes to the write stream, which the pipe ends in turn;
\* or final() fails and the cipher emits 'error'.
ReadEnd ==
  /\ pc = "streaming"
  /\ rs = "open"
  /\ piped
  /\ rsPos >= Len(fs[opts.input.s])
  /\ rs' = "ended"
  /\ LET f == CipherFinal(action, ciph.key, ciph.held)
     IN IF f.ok
        THEN /\ ciph' = [ciph EXCEPT !.held = <<>>, !.st = "ended"]
             /\ wsBuf' = IF cipherPiped THEN wsBuf \o f.out ELSE wsBuf
             /\ wsEnded' = cipherPiped
             /\ UNCHANGED <<piped, delivered>>
        ELSE /\ ciph' = [ciph EXCEPT !.st = "error"]
             /\ piped' = FALSE
             /\ delivered' = Append(delivered, HandleStreamError(CipherError))
             /\ UNCHANGED <<wsBuf, wsEnded>>
  /\ UNCHANGED <<fs, dirs, config, pc, rsPos, cipherPiped, ws, callVars>>

\* The read stream closes its descriptor after 'end'.
ReadClose ==
  /\ pc = "streaming"
  /\ rs = "ended"
  /\ rs' = "closed"
  /\ UNCHANGED <<fs, dirs, config, pc, delivered, rsPos, piped, ciph,
                 cipherPiped, ws, wsBuf, wsEnded, callVars>>

\* WriteOpen with a fault: the file is opened without being truncated and
\* written from its end.  C20 must detect it.
WriteOpen_NoTruncate ==
  /\ pc = "streaming"
  /\ ws = "opening"
  /\ dirs' = dirs \cup ({ParentOf(opts.output.s)} \ {"."})
  /\ LET r == WriteOpenResult(opts.output.s, dirs')
     IN IF r = "ok"
        THEN /\ ws' = "open"
             /\ fs' = [fs EXCEPT ![opts.output.s] = IF @ = NoFile THEN <<>> ELSE @]
             /\ UNCHANGED <<wsBuf, cipherPiped, piped, delivered>>
        ELSE /\ ws' = "error"
             /\ wsBuf' = <<>>
             /\ cipherPiped' = FALSE
             /\ piped' = FALSE
             /\ delivered' =
                  Append(delivered,
                         HandleStreamError(PlatformError(r, opts.output.s, "write")))
             /\ UNCHANGED fs
  /\ UNCHANGED <<config, pc, rs, rsPos, ciph, wsEnded, callVars>>

\* fs.createOutputStream: the directory of the output is made, then the
\* file is opened with flag 'w', which creates or truncates it; a failed
\* open destroys the stream and emits 'error', on which the pipe unpipes the
\* cipher.
WriteOpen ==
  /\ pc = "streaming"
  /\ ws = "opening"
  /\ dirs' = dirs \cup ({ParentOf(opts.output.s)} \ {"."})
  /\ LET r == WriteOpenResult(opts.output.s, dirs')
     IN IF r = "ok"
        THEN /\ ws' = "open"
             /\ fs' = [fs EXCEPT ![opts.output.s] = <<>>]
             /\ UNCHANGED <<wsBuf, cipherPiped, piped, delivered>>
        ELSE /\ ws' = "error"
             /\ wsBuf' = <<>>
             /\ cipherPiped' = FALSE
             /\ piped' = FALSE
             /\ delivered' =
                  Append(delivered,
                         HandleStreamError(PlatformError(r, opts.output.s, "write")))
             /\ UNCHANGED fs
  /\ UNCHANGED <<config, pc, rs, rsPos, ciph, wsEnded, callVars>>

\* The write stream writes its oldest buffered byte to the file.
WriteFlush ==
  /\ pc = "streaming"
  /\ ws = "open"
  /\ wsBuf # <<>>
  /\ fs' = [fs EXCEPT ![opts.output.s] = Append(@, Head(wsBuf))]
  /\ wsBuf' = Tail(wsBuf)
  /\ UNCHANGED <<dirs, config, pc, delivered, rs, rsPos, piped, ciph,
                 cipherPiped, ws, wsEnded, callVars>>

\* 'finish': the stream was ended and everything written to it is in the
\* file.  The listener of _cipher calls done(null, options).
WriteFinish ==
  /\ pc = "streaming"
  /\ ws = "open"
  /\ wsEnded
  /\ wsBuf = <<>>
  /\ ws' = "finished"
  /\ delivered' = Append(delivered, Ok)
  /\ UNCHANGED <<fs, dirs, config, pc, rs, rsPos, piped, ciph, cipherPiped,
                 wsBuf, wsEnded, callVars>>

\* The write stream closes its descriptor after 'finish'.
WriteClose ==
  /\ pc = "streaming"
  /\ ws = "finished"
  /\ ws' = "closed"
  /\ UNCHANGED <<fs, dirs, config, pc, delivered, rs, rsPos, piped, ciph,
                 cipherPiped, wsBuf, wsEnded, callVars>>

(***************************************************************************)
(* A caller that, once an encryption has reported success, decrypts its    *)
(* output into dec.txt with the options it encrypted with, or with one of   *)
(* the six parameters of the key changed (that, for out.txt only).         *)
(***************************************************************************)
Succeeded == delivered = <<Ok>>

Changes ==
  {"none", "password", "salt", "iterations", "keylen", "digest", "algorithm"}

\* A value of the field other than the one the encryption used.
ChangedValue(field) ==
  IF field = "password" THEN Str("not-alakazam")
  ELSE IF field = "salt"
  THEN (IF opts.salt = Str(DEFAULT_SALT) THEN Str("abracadabra")
        ELSE Str(DEFAULT_SALT))
  ELSE IF field = "iterations" THEN Num(DEFAULT_ITERATIONS + 1)
  ELSE IF field = "keylen" THEN Num(DEFAULT_KEYLEN \div 2)
  ELSE IF field = "digest" THEN Str("sha256")
  ELSE IF opts.algorithm.s \in StreamCiphers THEN Str("aes-256-cbc")
  ELSE Str("aes-128-ctr")

DecryptRequest(ch) ==
  LET o == [orig EXCEPT !.input = opts.output, !.output = Str("dec.txt")]
  IN IF ch = "none" THEN o ELSE [o EXCEPT ![ch] = ChangedValue(ch)]

SecondCall(ch) ==
  /\ opNo = 1
  /\ action = "encrypt"
  /\ Succeeded
  /\ ch # "none" => opts.output = Str("out.txt")
  /\ opNo' = 2
  /\ prev' = [options |-> opts, plain |-> fs0[opts.input.s], mode |-> mode,
              changed |-> ch]
  /\ cli' = cli

decryptOutput ==
  \E ch \in Changes :
    SecondCall(ch) /\ ParseCipherRequest("decrypt", DecryptRequest(ch))

decryptOutputSync ==
  \E ch \in Changes :
    SecondCall(ch) /\ SyncCall("decrypt", DecryptRequest(ch))

Next ==
  \/ encrypt
  \/ decrypt
  \/ encryptSync
  \/ decryptSync
  \/ PromiseReject
  \/ PromiseResolve
  \/ DeriveKeyFail
  \/ DeriveKeyDone
  \/ ReadOpen
  \/ ReadData
  \/ ReadEnd
  \/ ReadClose
  \/ WriteOpen
  \/ WriteFlush
  \/ WriteFinish
  \/ WriteClose
  \/ decryptOutput
  \/ decryptOutputSync

Spec == Init /\ [][Next]_vars

(***************************************************************************)
(* Option merging and validation on their own: the part of a call that     *)
(* comes before the pipeline, applied to requests with values of every     *)
(* type in every field.                                                    *)
(***************************************************************************)
WideInput == {Undef, Str("in.txt"), Num(5)}

WideOutput == {Undef, Str("out.txt"), Num(5)}

WidePassword == {Undef, Str("alakazam"), Num(5)}

WideSalt == {Undef, Str("abracadabra"), Buf("abracadabra"), Num(5)}

WideIterations == {Undef, Num(5), Str("5")}

WideKeylen == {Undef, Num(5), Str("5")}

WideDigest == {Undef, Str("md0"), Num(5)} \cup {Str(h) : h \in ALL_HASHES}

WideAlgorithm ==
  {Undef, Str("foobar"), Num(5)} \cup {Str(a) : a \in ALL_CIPHERS}

WideRequests ==
  {[input |-> i, output |-> o, password |-> p, algorithm |-> a, salt |-> s,
    digest |-> d, iterations |-> n, keylen |-> k] :
     i \in WideInput, o \in WideOutput, p \in WidePassword,
     a \in WideAlgorithm, s \in WideSalt, d \in WideDigest,
     n \in WideIterations, k \in WideKeylen}

InitValidate ==
  /\ fs = InitFs(<<>>)
  /\ dirs = {}
  /\ config = Defaults
  /\ pc = "idle"
  /\ mode = "none"
  /\ action = "none"
  /\ orig \in WideRequests
  /\ opts = NoOptions
  /\ errors = <<>>
  /\ settled = Ok
  /\ delivered = <<>>
  /\ rs = "none"
  /\ rsPos = 0
  /\ piped = FALSE
  /\ ciph = NoCipher
  /\ cipherPiped = FALSE
  /\ ws = "none"
  /\ wsBuf = <<>>
  /\ wsEnded = FALSE
  /\ fs0 = fs
  /\ opNo = 0
  /\ prev = NoPrev
  /\ other = IdleOp(fs)
  /\ cli = CliOff

\* _parseOptions, _validateOptions and _handleErrors of the request.
ParseAndValidate ==
  /\ pc = "idle"
  /\ pc' = "validated"
  /\ opts' = ParseOptions(orig, config)
  /\ errors' = ValidateOptions(opts')
  /\ settled' = HandleErrors(errors')
  /\ UNCHANGED <<fs, dirs, config, mode, action, orig, delivered, streamVars,
                 fs0, opNo, prev, other, cli>>

NextValidate == ParseAndValidate

SpecValidate == InitValidate /\ [][NextValidate]_vars

(***************************************************************************)
(* Two calls in flight at once: the second encrypt()/decrypt() is made     *)
(* while handlers of the first are still to run, and the event loop runs   *)
(* the handlers of either.  The variables pc .. fs0 are those of the call  *)
(* whose handler runs next; other keeps those of the second call.          *)
(***************************************************************************)
ConcurrentContent == [i \in 1..MaxLen |-> i % NumBytes]

\* The requests of the first and of the second caller: different files.
ConcurrentRequests ==
  << {[NoOptions EXCEPT !.input = Str(i), !.output = Str(o),
                        !.password = Str("alakazam")] :
        i \in {"in.txt", "missing.txt"}, o \in {"out.txt", "locked.txt"}},
     {[NoOptions EXCEPT !.input = Str("old.txt"), !.output = Str("dec.txt"),
                        !.password = p, !.algorithm = Str("aes-128-ctr")] :
        p \in {Undef, Str("not-alakazam")}} >>

InitConcurrent ==
  /\ fs = InitFs(ConcurrentContent)
  /\ dirs = {}
  /\ config = Defaults
  /\ pc = "idle"
  /\ mode = "none"
  /\ action = "none"
  /\ orig = NoOptions
  /\ opts = NoOptions
  /\ errors = <<>>
  /\ settled = Ok
  /\ delivered = <<>>
  /\ rs = "none"
  /\ rsPos = 0
  /\ piped = FALSE
  /\ ciph = NoCipher
  /\ cipherPiped = FALSE
  /\ ws = "none"
  /\ wsBuf = <<>>
  /\ wsEnded = FALSE
  /\ fs0 = fs
  /\ opNo = 0
  /\ prev = NoPrev
  /\ other = IdleOp(fs)
  /\ cli = CliOff

\* encrypt() or decrypt() by the caller whose turn it is.
callConcurrent ==
  /\ pc = "idle"
  /\ opNo < 2
  /\ opNo' = opNo + 1
  /\ prev' = prev
  /\ cli' = cli
  /\ \E act \in Actions, o \in ConcurrentRequests[opNo + 1] :
       ParseCipherRequest(act, o)

\* Nothing of the call o is left to run.
OpFinished(o) ==
  \/ o.pc \in {"done", "dead"}
  \/ /\ o.pc = "streaming"
     /\ o.rs \in {"closed", "error"} \/ (o.rs = "open" /\ ~o.piped)
     /\ \/ o.ws \in {"closed", "error"}
        \/ o.ws = "open" /\ o.wsBuf = <<>> /\ ~o.wsEnded

\* The event loop turns to the other call: to its caller, if the call was
\* not made yet, or to a handler of it.
Switch ==
  /\ opNo >= 1
  /\ ~OpFinished(other)
  /\ pc' = other.pc
  /\ mode' = other.mode
  /\ action' = other.action
  /\ orig' = other.orig
  /\ opts' = other.opts
  /\ errors' = other.errors
  /\ settled' = other.settled
  /\ delivered' = other.delivered
  /\ rs' = other.rs
  /\ rsPos' = other.rsPos
  /\ piped' = other.piped
  /\ ciph' = other.ciph
  /\ cipherPiped' = other.cipherPiped
  /\ ws' = other.ws
  /\ wsBuf' = other.wsBuf
  /\ wsEnded' = other.wsEnded
  /\ fs0' = other.fs0
  /\ other' = Active
  /\ UNCHANGED <<fs, dirs, config, opNo, prev, cli>>

NextConcurrent ==
  \/ callConcurrent
  \/ Switch
  \/ PromiseReject
  \/ PromiseResolve
  \/ DeriveKeyFail
  \/ DeriveKeyDone
  \/ ReadOpen
  \/ ReadData
  \/ ReadEnd
  \/ ReadClose
  \/ WriteOpen
  \/ WriteFlush
  \/ WriteFinish
  \/ WriteClose

SpecConcurrent == InitConcurrent /\ [][NextConcurrent]_vars

(***************************************************************************)
(* A caller that keeps the options object it passed and assigns to its     *)
(* fields while the call is in flight.  _parseOptions returns the caller's  *)
(* object itself and _cipher reads it in the reaction of the promise and   *)
(* in the callback of pbkdf2, both of which run after the call returned.   *)
(***************************************************************************)

\* The requests of that caller.
MutateRequests ==
  {[NoOptions EXCEPT !.input = Str("in.txt"), !.output = Str("out.txt"),
                     !.password = p, !.algorithm = a] :
     p \in {Undef, Str("alakazam")}, a \in {Undef, Str("aes-128-cbc")}}

\* The fields _cipher has yet to read: pbkdf2 is called with password, salt,
\* iterations, keylen and digest in the reaction of the promise; algorithm,
\* input and output are read when pbkdf2 calls back.
UnreadFields ==
  IF pc = "promise" THEN {"password", "algorithm", "input", "output"}
  ELSE IF pc = "deriving" THEN {"algorithm", "input", "output"}
  ELSE {}

\* The value the caller assigns to the field: another valid one.
MutatedValue(f) ==
  IF f = "password" THEN Str("not-alakazam")
  ELSE IF f = "algorithm" THEN Str("aes-128-ctr")
  ELSE IF f = "input" THEN Str("old.txt")
  ELSE Str("dec.txt")

\* encrypt() / decrypt() of the caller.
callMutate ==
  /\ FirstCall
  /\ \E act \in Actions, o \in MutateRequests : ParseCipherRequest(act, o)

\* The caller assigns to a field of its options object.
mutateOptions ==
  /\ mode = "async"
  /\ \E f \in UnreadFields :
       /\ opts[f] # MutatedValue(f)
       /\ opts' = [opts EXCEPT ![f] = MutatedValue(f)]
  /\ UNCHANGED <<fs, dirs, config, pc, mode, action, orig, errors, settled,
                 delivered, streamVars, fs0, opNo, prev, other, cli>>

NextMutate ==
  \/ callMutate
  \/ mutateOptions
  \/ PromiseReject
  \/ PromiseResolve
  \/ DeriveKeyFail
  \/ DeriveKeyDone
  \/ ReadOpen
  \/ ReadData
  \/ ReadEnd
  \/ ReadClose
  \/ WriteOpen
  \/ WriteFlush
  \/ WriteFinish
  \/ WriteClose

SpecMutate == Init /\ [][NextMutate]_vars

(***************************************************************************)
(* The command-line interface: the action of the encrypt and decrypt       *)
(* commands, which asks for the password when the command line has none.   *)
(***************************************************************************)

\* The longest run of prompts, and of refused answers, that is followed.
MaxPrompts == 3

\* The options commander hands to the action: of the request's fields it
\* holds those given on the command line.
CliOptions ==
  {[NoOptions EXCEPT !.password = p, !.algorithm = a] :
     p \in {Undef, Str("alakazam")}, a \in {Undef, Str("foobar")}}

CliInputs == {"in.txt", "missing.txt"}

CliOutputs == {"out.txt", "locked.txt"}

\* What is typed at the prompt.
Answers == {Str(""), Str("alakazam")}

\* validate(input) of the question: input.length > 0.
ValidateAnswer(input) == input.s # ""

\* parseOptions of the action: the fields of nodecipher.defaults that are
\* defined in the options.
CliParseOptions(options) ==
  [f \in DOMAIN Defaults |-> IF options[f] # Undef THEN options[f] ELSE Undef]

\* _.assign(object, source): the properties of source are assigned to object.
Assign(object, source) ==
  [f \in FieldSet |-> IF source[f] # Undef THEN source[f] ELSE object[f]]

\* The options after the callback of the prompt ran
\* _.assign(password, options): the properties of options are assigned to
\* an object made of the password string; options is a source and stays as
\* it is, and the result is an argument cipher() does not read.
OptionsAfterPrompt(password, options) == options

\* cipher(command, input, output, options) of the action, c holding its
\* arguments: the prompt when the options hold no password, and otherwise
\* nodecipher[command] called with the options merged over input and output.
Cipher(c) ==
  IF c.options.password = Undef
  THEN /\ cli' = [c EXCEPT !.pc = "prompting", !.prompts = @ + 1]
       /\ UNCHANGED <<fs, dirs, config, pc, mode, action, orig, opts, errors,
                      settled, delivered, streamVars, fs0, opNo, prev, other>>
  ELSE /\ cli' = [c EXCEPT !.pc = "called"]
       /\ ParseCipherRequest(
            c.command,
            Assign([NoOptions EXCEPT !.input = Str(c.input),
                                     !.output = Str(c.output)],
                   CliParseOptions(c.options)))
       /\ opNo' = opNo + 1
       /\ prev' = prev

\* The action commander runs for `encrypt|decrypt <input> <output>`.
cliCommand ==
  /\ pc = "idle"
  /\ cli.pc = "off"
  /\ \E command \in Actions, i \in CliInputs, o \in CliOutputs,
        options \in CliOptions :
       Cipher([cli EXCEPT !.command = command, !.input = i, !.output = o,
                          !.options = options])

\* An answer is typed at the prompt.  An empty one is refused by validate
\* and the question stays; otherwise the callback of prompForPassword runs
\* cipher() again.
promptAnswer ==
  /\ cli.pc = "prompting"
  /\ \E a \in Answers :
       IF ~ValidateAnswer(a)
       THEN /\ cli.rejected < MaxPrompts
            /\ cli' = [cli EXCEPT !.rejected = @ + 1]
            /\ UNCHANGED <<fs, dirs, config, pc, mode, action, orig, opts,
                           errors, settled, delivered, streamVars, fs0, opNo,
                           prev, other>>
       ELSE /\ cli.prompts < MaxPrompts
            /\ Cipher([cli EXCEPT !.accepted = @ + 1, !.answer = a,
                                  !.options = OptionsAfterPrompt(a, @)])

NextCli ==
  \/ cliCommand
  \/ promptAnswer
  \/ PromiseReject
  \/ PromiseResolve
  \/ DeriveKeyFail
  \/ DeriveKeyDone
  \/ ReadOpen
  \/ ReadData
  \/ ReadEnd
  \/ ReadClose
  \/ WriteOpen
  \/ WriteFlush
  \/ WriteFinish
  \/ WriteClose

SpecCli == Init /\ [][NextCli]_vars

(***************************************************************************)
(* Properties.                                                             *)
(***************************************************************************)

\* Every step of a call after the call itself.
Pipeline ==
  \/ PromiseReject
  \/ PromiseResolve
  \/ DeriveKeyFail
  \/ DeriveKeyDone
  \/ ReadOpen
  \/ ReadData
  \/ ReadEnd
  \/ ReadClose
  \/ WriteOpen
  \/ WriteFlush
  \/ WriteFinish
  \/ WriteClose

\* A call was made and nothing of it is left to run.
Finished == pc # "idle" /\ ~ENABLED Pipeline

RequestValid == Len(ValidateOptions(opts)) = 0

HasSuccess == \E i \in DOMAIN delivered : delivered[i].ok

\* C1: an async call invokes its callback at most once, whatever stream
\* events occur.
C1_CallbackAtMostOnce == mode = "async" => Len(delivered) <= 1

\* C2: an async call invokes its callback at least once: when nothing of the
\* call is left to run, the callback has been called.
C2_CallbackAtLeastOnce ==
  (mode = "async" /\ Finished) => Len(delivered) >= 1

C4_SuccessAfterClose ==
  (mode = "async" /\ HasSuccess /\ opts.input # opts.output)
    => ws = "closed" /\ wsBuf = <<>> /\ ciph.st = "ended"

\* C4 as amended: success is reported only after 'finish' of the write
\* stream, when the cipher was finalized and its whole output, final block
\* included, is in the output file; never on the mere end of the input.
C4_SuccessAfterFinish ==
  (mode = "async" /\ HasSuccess)
    => /\ ws \in {"finished", "closed"}
       /\ wsEnded
       /\ wsBuf = <<>>
       /\ ciph.st = "ended"
       /\ rs \in {"ended", "closed"}
       /\ opts.input # opts.output
            => fs[opts.output.s] = CipherAll(action, ciph.key, fs0[opts.input.s]).out

C4_Witness ==
  /\ mode = "async"
  /\ action = "encrypt"
  /\ Succeeded
  /\ ws = "finished"
  /\ Len(fs[opts.output.s]) = MaxLen + 1

C6_MissingInputLeavesOutput ==
  (opNo = 1 /\ RequestValid /\ fs0[opts.input.s] = NoFile)
    => fs[opts.output.s] = fs0[opts.output.s]

\* C7: a valid request whose input is missing or unreadable is answered
\* with an error named BAD_FILE that carries the input path.
C7_UnreadableInputIsBadFile ==
  (opNo = 1 /\ RequestValid /\ ReadOpenResult(fs0, opts.input.s) # "ok")
    => \A i \in DOMAIN delivered :
         delivered[i].origin = "read"
           => /\ delivered[i].name = Errors.BAD_FILE
              /\ delivered[i].path = opts.input.s

\* C8: a failure of the cipher transform reaches the caller, named
\* BAD_DECRYPT, through the callback and through the thrown error.
C8_CipherFailureIsBadDecrypt ==
  /\ \A i \in DOMAIN delivered :
       delivered[i].origin = "cipher" => delivered[i].name = Errors.BAD_DECRYPT
  /\ (mode = "async" /\ ciph.st = "error")
       => \E i \in DOMAIN delivered : delivered[i].origin = "cipher"
  /\ (mode = "sync" /\ RequestValid /\ ~Pbkdf2Throws(opts)
        /\ ReadOpenResult(fs0, opts.input.s) = "ok"
        /\ ~CipherAll(action, GenerateCipherFromOptions(opts, DeriveKeyFromOptionsSync(opts)),
                      fs0[opts.input.s]).ok)
       => /\ Len(delivered) = 1
          /\ delivered[1].origin = "cipher"

C8_Witness ==
  /\ mode = "async"
  /\ action = "decrypt"
  /\ Len(delivered) = 1
  /\ delivered[1].origin = "cipher"
  /\ delivered[1].name = Errors.BAD_DECRYPT
  /\ rsPos = MaxLen

\* C9: an I/O error of the output file is never reported as BAD_DECRYPT or
\* BAD_FILE.
C9_OutputErrorIsUnknown ==
  \A i \in DOMAIN delivered :
    delivered[i].origin = "write"
      => delivered[i].name \notin {Errors.BAD_DECRYPT, Errors.BAD_FILE}

\* C10: a request whose only fault is an unsupported algorithm name is
\* answered with an error named BAD_ALGORITHM, one whose only fault is an
\* unsupported digest name with an error named BAD_DIGEST, in all four
\* entry points.
OnlyFault(field) ==
  /\ ~RequestValid
  /\ \A i \in DOMAIN ValidateOptions(opts) : ValidateOptions(opts)[i].option = field

C10_UnsupportedNames ==
  (opNo = 1 /\ pc = "done" /\ Len(delivered) = 1)
    => /\ OnlyFault("algorithm") => delivered[1].name = Errors.BAD_ALGORITHM
       /\ OnlyFault("digest") => delivered[1].name = Errors.BAD_DIGEST

KeyFields == {"password", "salt", "iterations", "keylen", "digest", "algorithm"}

\* The second call is a decryption of out.txt with exactly one of the six
\* parameters of the key other than at the encryption.
OneChanged ==
  /\ opNo = 2
  /\ prev.changed # "none"
  /\ action = "decrypt"
  /\ opts.input = prev.options.output
  /\ \A f \in KeyFields : (opts[f] # prev.options[f]) <=> (f = prev.changed)

FieldOrder ==
  <<"input", "output", "password", "salt", "iterations", "keylen", "digest",
    "algorithm">>

Defaulted == {"algorithm", "salt", "digest", "iterations", "keylen"}

TypeOK(f, v) ==
  IF f \in {"iterations", "keylen"} THEN v.t = "number"
  ELSE IF f = "salt" THEN v.t \in {"string", "buffer"}
  ELSE v.t = "string"

MemberOK(f, v) ==
  IF f = "digest" THEN v.t = "string" /\ v.s \in ALL_HASHES
  ELSE IF f = "algorithm" THEN v.t = "string" /\ v.s \in ALL_CIPHERS
  ELSE TRUE

\* How many of the rules required / type / membership the value violates.
Violations(f, v) ==
  (IF v = Undef THEN 1 ELSE 0) + (IF TypeOK(f, v) THEN 0 ELSE 1)
    + (IF MemberOK(f, v) THEN 0 ELSE 1)

\* The field an entry of the errors array is about.
EntryField(e) == IF e.option # NoName THEN e.option ELSE e.name

EntriesFor(f) ==
  Cardinality({i \in DOMAIN errors : EntryField(errors[i]) = f})

IndexOf(f) == CHOOSE i \in DOMAIN FieldOrder : FieldOrder[i] = f

\* No field validated before f violates a rule.
EarlierValid(f) ==
  \A i \in 1..(IndexOf(f) - 1) :
    Violations(FieldOrder[i], opts[FieldOrder[i]]) = 0

OthersValid(f) ==
  \A g \in FieldSet \ {f} : Violations(g, opts[g]) = 0

\* The call is answered, by the rejection of the promise and by the error
\* to throw alike, with a validation error whose message names the field.
AnsweredNaming(f) ==
  /\ ~settled.ok
  /\ settled.origin = "validation"
  /\ settled.msg.key = f
  /\ ~HandleErrorsSync(errors).ok
  /\ HandleErrorsSync(errors).msg.key = f

\* C12 as stated: a request that omits a field, or gives it a value of the
\* wrong type, and is otherwise valid, is answered with a validation error
\* that names the field; for each of the eight fields.
C12_OmittedOrWrongTypeNamed ==
  pc = "validated"
    => \A f \in FieldSet :
         ((orig[f] = Undef \/ ~TypeOK(f, orig[f])) /\ OthersValid(f))
           => AnsweredNaming(f)

\* C12 as amended: a value of the wrong type in any of the eight fields,
\* and the omission of input, output or password, is answered with a
\* validation error that names the field, the first such field in the order
\* of validation; the omission of a field that has a default is no fault
\* and gives no entry.
C12_UnresolvedOrWrongTypeNamed ==
  pc = "validated"
    => \A f \in FieldSet :
         /\ (((orig[f] = Undef /\ f \notin Defaulted)
                \/ (orig[f] # Undef /\ ~TypeOK(f, orig[f])))
               /\ EarlierValid(f))
              => AnsweredNaming(f)
         /\ (orig[f] = Undef /\ f \in Defaulted) => EntriesFor(f) = 0

C12_Witness ==
  /\ pc = "validated"
  /\ orig.iterations = Str("5")
  /\ orig.salt = Undef
  /\ OthersValid("iterations")
  /\ AnsweredNaming("iterations")

\* C13: the array validation returns has one entry for every rule a field
\* violates and none for a rule it satisfies, for every field and not only
\* the first at fault; it is empty exactly when no field violates a rule.
C13_AllViolationsReturned ==
  pc = "validated"
    => /\ \A f \in FieldSet : EntriesFor(f) = Violations(f, opts[f])
       /\ \A i \in DOMAIN errors : EntryField(errors[i]) \in FieldSet
       /\ (Len(errors) = 0) <=> (\A f \in FieldSet : Violations(f, opts[f]) = 0)

C13_Witness ==
  /\ pc = "validated"
  /\ opts.input = Undef
  /\ opts.algorithm = Str("foobar")
  /\ Len(errors) = 3
  /\ EntriesFor("input") = 2
  /\ EntriesFor("algorithm") = 1

\* The call got past validation and handed its options to crypto.pbkdf2
\* or crypto.pbkdf2Sync.
KdfInvoked ==
  /\ opNo >= 1
  /\ RequestValid
  /\ mode = "sync" \/ pc \in {"deriving", "dead", "streaming", "done"}

\* C14: key derivation is only invoked with a non-empty password, with
\* iterations >= 1 and with keylen >= 1; validation stops any other request.
C14_KdfPreconditions ==
  KdfInvoked
    => /\ opts.password.s # ""
       /\ opts.iterations.n >= 1
       /\ opts.keylen.n >= 1

\* The defaults as the documentation of the options states them.
StatedDefaults ==
  [input |-> Undef, output |-> Undef, password |-> Undef,
   algorithm |-> Str("cast5-cbc"), salt |-> Str("nodecipher"),
   iterations |-> Num(1000), keylen |-> Num(512), digest |-> Str("sha1")]

\* The caller's value where there is one, the stated default otherwise.
Merged == [f \in FieldSet |-> IF orig[f] # Undef THEN orig[f] ELSE StatedDefaults[f]]

\* C15: the options that are validated and that the pipeline uses hold, in
\* each field, the caller's value if the caller gave one and the default
\* otherwise (none for input, output and password); the cipher, when it is
\* created, is made of these values.
C15_OptionMerging ==
  opNo >= 1
    => /\ opts = Merged
       /\ errors = ValidateOptions(opts)
       /\ (pc = "streaming" /\ rs = "opening" /\ ws = "opening")
            => ciph.key =
                 GenerateCipherFromOptions(Merged,
                   PBKDF2(Merged.password.s, Merged.salt.s, Merged.iterations.n,
                          Merged.keylen.n, Merged.digest.s))

C15_Witness ==
  /\ opNo = 2
  /\ pc = "streaming"
  /\ rs = "opening"
  /\ ws = "opening"
  /\ orig.keylen = Num(256)
  /\ opts.keylen = Num(256)
  /\ orig.digest = Undef
  /\ opts.digest = Str("sha1")
  /\ orig.password # Undef
  /\ opts.algorithm = Str("cast5-cbc")

\* C16: a sync call returns with the whole cipher output (update and final)
\* in the output file and nothing else changed, or throws; when it throws
\* because the input could not be read or the cipher failed, no file is
\* changed: the output path is as it was.
C16_SyncAllOrNothing ==
  (mode = "sync" /\ pc = "done")
    => /\ Len(delivered) = 1
       /\ delivered[1].ok
            => LET key == GenerateCipherFromOptions(opts, DeriveKeyFromOptionsSync(opts))
                   c == CipherAll(action, key, fs0[opts.input.s])
               IN /\ c.ok
                  /\ fs = [fs0 EXCEPT ![opts.output.s] = c.out]
       /\ (~delivered[1].ok /\ delivered[1].origin \in {"read", "cipher"})
            => fs = fs0

C16_Witness ==
  /\ mode = "sync"
  /\ pc = "done"
  /\ action = "decrypt"
  /\ ~delivered[1].ok
  /\ delivered[1].origin = "cipher"
  /\ opts.output = Str("old.txt")
  /\ Len(fs0["in.txt"]) = MaxLen
  /\ fs["old.txt"] = <<1>>

\* What the sync variant makes of the request of the call in progress, on
\* the file system the call began with.
SyncOfSame == CipherSync(action, opts, fs0, {})

C18_HandlesClosed ==
  Finished
    => /\ rs \in {"none", "closed", "error"}
       /\ ws \in {"none", "closed", "error"}

Origins(o) == {o.delivered[i].origin : i \in DOMAIN o.delivered}

\* What an async call with distinct input and output paths ends with when
\* it runs alone, said of the finished call o and the file system f: the
\* outcome and the output file follow from the request as the caller wrote
\* it, the defaults, and the files as the call found them.
AloneOutcome(o, f) ==
  LET ex  == ParseOptions(o.orig, Defaults)
      inp == ex.input.s
      out == ex.output.s
      key == GenerateCipherFromOptions(ex, DeriveKeyFromOptions(ex))
      rd  == ReadOpenResult(o.fs0, inp)
      wr  == WriteOpenResult(out, {ParentOf(out)})
      c   == CipherAll(o.action, key, o.fs0[inp])
  IN IF Len(ValidateOptions(ex)) > 0
     THEN o.delivered = <<HandleErrors(ValidateOptions(ex))>> /\ f[out] = o.fs0[out]
     ELSE IF Pbkdf2Throws(ex) THEN o.delivered = <<>> /\ f[out] = o.fs0[out]
     ELSE \/ Origins(o) = {"kdf"} /\ Len(o.delivered) = 1 /\ f[out] = o.fs0[out]
          \/ /\ "kdf" \notin Origins(o)
             /\ "validation" \notin Origins(o)
             /\ ("read" \in Origins(o)) <=> (rd # "ok")
             /\ ("write" \in Origins(o)) <=> (wr # "ok")
             /\ ("cipher" \in Origins(o)) => (rd = "ok" /\ ~c.ok)
             /\ (rd = "ok" /\ wr = "ok" /\ ~c.ok) => "cipher" \in Origins(o)
             /\ ("" \in Origins(o)) <=> (rd = "ok" /\ wr = "ok" /\ c.ok)
             /\ f[out] = IF wr # "ok" THEN o.fs0[out]
                         ELSE IF rd # "ok" THEN <<>>
                         ELSE IF c.ok THEN c.out
                         ELSE UpdateAll(o.action, key, <<>>, o.fs0[inp]).out

\* The reference of C19, in the specification of one call at a time: a
\* finished async call of distinct paths ends as AloneOutcome says.
AloneOutcomeOfOneCall ==
  /\ pc # "idle" => (Finished <=> OpFinished(Active))
  /\ (mode = "async" /\ Finished /\ opts.input # opts.output)
       => AloneOutcome(Active, fs)

\* C19: of two async calls in flight at once on different files, in every
\* interleaving of their handlers, each ends with the outcome and the
\* output file it has when it runs alone, and the configuration they share
\* is never written.
C19_SelfContained ==
  /\ config = Defaults
  /\ (pc # "idle" /\ OpFinished(Active)) => AloneOutcome(Active, fs)
  /\ (other.pc # "idle" /\ OpFinished(other)) => AloneOutcome(other, fs)

C19_Witness ==
  /\ opNo = 2
  /\ OpFinished(Active)
  /\ OpFinished(other)
  /\ delivered = <<Ok>>
  /\ other.delivered = <<Ok>>
  /\ action = "encrypt"
  /\ other.action = "decrypt"
  /\ Len(fs["out.txt"]) = MaxLen + 1
  /\ Len(fs["dec.txt"]) = 1
  /\ other.fs0["out.txt"] # NoFile
  /\ other.fs0["out.txt"] # fs["out.txt"]

\* C21: validation accepts a value as algorithm exactly when it is a name
\* listAlgorithms() returns, and as digest exactly when it is a name
\* listHashes() returns: every listed name is accepted, and nothing else.
C21_ListedIffAccepted ==
  pc = "validated"
    => /\ (EntriesFor("algorithm") = 0)
            <=> (IsString(opts.algorithm) /\ opts.algorithm.s \in listAlgorithms)
       /\ (EntriesFor("digest") = 0)
            <=> (IsString(opts.digest) /\ opts.digest.s \in listHashes)
       /\ \A a \in listAlgorithms :
            Len(ValidateRequiredCipher("algorithm", Str(a))) = 0
       /\ \A h \in listHashes : Len(ValidateRequiredHash("digest", Str(h))) = 0

C21_Witness ==
  /\ pc = "validated"
  /\ orig.algorithm = Str("aes-128-ctr")
  /\ orig.digest = Str("sha1")
  /\ Len(errors) = 0

\* The first field, in the order of validation, whose value violates a rule.
FirstFaulty ==
  FieldOrder[CHOOSE i \in DOMAIN FieldOrder :
               /\ Violations(FieldOrder[i], opts[FieldOrder[i]]) > 0
               /\ EarlierValid(FieldOrder[i])]

\* The first rule the value violates: required, then type, then membership.
FirstRule(f, v) ==
  IF v = Undef THEN "required"
  ELSE IF ~TypeOK(f, v) THEN "type"
  ELSE "member"

\* The rule a message reports.
RuleOf(msg) ==
  IF msg.kind = "required" THEN "required"
  ELSE IF msg.kind \in {"not-a-digest", "not-a-cipher"} THEN "member"
  ELSE "type"

\* The field a message reports.
FieldOf(msg) ==
  IF msg.kind = "not-a-digest" THEN "digest"
  ELSE IF msg.kind = "not-a-cipher" THEN "algorithm"
  ELSE msg.key

\* C26: of a request violating several rules, the one error delivered, by
\* the rejected promise and by the error thrown alike, reports the first
\* faulty field in the order input, output, password, salt, iterations,
\* keylen, digest, algorithm and the first rule that field violates in the
\* order required, type, membership; BAD_ALGORITHM and BAD_DIGEST are
\* delivered only when every earlier field is valid and the value is a
\* string.
C26_FirstErrorInFixedOrder ==
  (pc = "validated" /\ Len(errors) > 0)
    => /\ ~settled.ok
       /\ HandleErrorsSync(errors).msg = settled.msg
       /\ FieldOf(settled.msg) = FirstFaulty
       /\ RuleOf(settled.msg) = FirstRule(FirstFaulty, opts[FirstFaulty])
       /\ (settled.name = Errors.BAD_ALGORITHM)
            <=> (FirstFaulty = "algorithm" /\ IsString(opts.algorithm))
       /\ (settled.name = Errors.BAD_DIGEST)
            <=> (FirstFaulty = "digest" /\ IsString(opts.digest))

C26_Witness ==
  /\ pc = "validated"
  /\ orig.output = Num(5)
  /\ orig.iterations = Str("5")
  /\ orig.digest = Str("md0")
  /\ orig.algorithm = Str("foobar")
  /\ OthersValid("output") = FALSE
  /\ settled.msg = Msg("not-string", "output", "number")
  /\ Len(errors) >= 6

\* What encryptSync()/decryptSync() answer to the request of the call, made
\* in front of the same files.
SyncAnswer == ParseCipherRequestSync(action, ParseOptions(orig, Defaults), fs0, {}).res

\* C27: whenever encrypt()/decrypt() deliver an error named BAD_ALGORITHM or
\* BAD_DIGEST, encryptSync()/decryptSync() called with an equal request
\* throw an error of the same name and the same message.
C27_SameKindInBothVariants ==
  (mode = "async" /\ pc = "done" /\ Len(delivered) = 1
     /\ delivered[1].name \in {Errors.BAD_ALGORITHM, Errors.BAD_DIGEST})
    => /\ ~SyncAnswer.ok
       /\ SyncAnswer.name = delivered[1].name
       /\ SyncAnswer.msg = delivered[1].msg

StreamOrigins == {"read", "cipher", "write"}

\* C24: in the async pipeline, whenever the callback has been given an
\* error of the read stream, of the cipher or of the write stream, the read
\* stream is no longer piped into the cipher: the unpipe comes before the
\* callback, at every such error.
C24_UnpipedBeforeCallback ==
  /\ (mode = "async"
        /\ \E i \in DOMAIN delivered :
             ~delivered[i].ok /\ delivered[i].origin \in StreamOrigins)
       => ~piped
  /\ (other.mode = "async"
        /\ \E i \in DOMAIN other.delivered :
             ~other.delivered[i].ok /\ other.delivered[i].origin \in StreamOrigins)
       => ~other.piped

C24_Witness ==
  /\ mode = "async"
  /\ action = "decrypt"
  /\ Len(delivered) = 1
  /\ ~delivered[1].ok
  /\ delivered[1].origin = "cipher"
  /\ rs = "ended"
  /\ ~piped

\* C25: after the async callback has been invoked with an error, the
\* operation writes no further byte to the output file: no step taken with
\* an error delivered appends to the file.
C25_NoWriteAfterError ==
  [][(mode = "async" /\ pc = "streaming" /\ opts.input # opts.output
        /\ \E i \in DOMAIN delivered : ~delivered[i].ok)
       => ~(/\ fs[opts.output.s] # NoFile
            /\ fs'[opts.output.s] # NoFile
            /\ Len(fs'[opts.output.s]) > Len(fs[opts.output.s]))]_vars

\* C28: an error is named BAD_FILE only when the path that failed is the
\* input path of the request; a failure of the output path is never
\* reported as BAD_FILE, in the async and in the sync variant.
C28_BadFileOnlyForInput ==
  \A i \in DOMAIN delivered :
    (~delivered[i].ok /\ delivered[i].name = Errors.BAD_FILE)
      => (delivered[i].origin = "read" /\ delivered[i].path = opts.input.s)

\* C29: a valid request whose input and output name the same readable file
\* ends, in the async variant as in the sync variant, with success and with
\* the file holding the cipher transform of its original content, whenever
\* the key was derived and the transform of that content exists.
C29_SameFileInPlace ==
  (opNo = 1 /\ Finished /\ RequestValid /\ ~Pbkdf2Throws(opts)
     /\ opts.input = opts.output
     /\ ReadOpenResult(fs0, opts.input.s) = "ok"
     /\ "kdf" \notin Origins(Active))
    => LET key == GenerateCipherFromOptions(opts, DeriveKeyFromOptionsSync(opts))
           c == CipherAll(action, key, fs0[opts.input.s])
       IN c.ok => (delivered = <<Ok>> /\ fs[opts.input.s] = c.out)

\* C30: after each of the four entry points the caller's options object
\* differs from what the caller passed only in the fields that were absent,
\* which hold the default; a supplied value is never changed, and the
\* configuration the defaults come from is the same after every call.
C30_DefaultsFrame ==
  opNo >= 1
    => /\ \A f \in FieldSet : orig[f] # Undef => opts[f] = orig[f]
       /\ \A f \in FieldSet : orig[f] = Undef => opts[f] = Defaults[f]
       /\ config = Defaults

C30_Witness ==
  /\ opNo = 2
  /\ mode = "sync"
  /\ pc = "done"
  /\ orig.salt = Undef
  /\ opts.salt = Defaults.salt
  /\ orig.algorithm = Str("aes-128-ctr")
  /\ opts.algorithm = Str("aes-128-ctr")
  /\ orig.output = Str("dec.txt")
  /\ opts.output = Str("dec.txt")

\* The request as it was validated: the caller's values at the call, merged
\* over the defaults.
Validated == ParseOptions(orig, Defaults)

\* C23: the values used for key derivation, for the cipher and for opening
\* the input and the output are those that passed validation, whatever the
\* caller assigns to the fields of its options object between the return of
\* encrypt()/decrypt() and the callback.
C23_RequestImmutable ==
  (mode = "async" /\ pc = "streaming")
    => /\ opts.input = Validated.input
       /\ opts.output = Validated.output
       /\ (rs = "opening" /\ ws = "opening")
            => ciph.key =
                 GenerateCipherFromOptions(Validated, DeriveKeyFromOptions(Validated))

\* C22: once a non-empty password has been entered at the prompt of an
\* encrypt or decrypt command run without one, the command has reached the
\* encrypt/decrypt call, with the entered value as the password, and is not
\* prompting again.
C22_PromptedPasswordUsed ==
  cli.accepted >= 1
    => /\ cli.pc = "called"
       /\ cli.prompts = cli.accepted
       /\ action = cli.command
       /\ orig.password = cli.answer

====
